---- MODULE Spec2Model ----
(***************************************************************************)
(* The transcription backend: the structured endpoints of                  *)
(* app/api/endpoints.py and the pipeline of                                *)
(* app/services/transcription_service.py, as a state machine over the      *)
(* temporary directory, the transcripts directory and the wall clock.      *)
(* Every request is one slot of Req; the steps of concurrent requests      *)
(* interleave at the file-system operations.                               *)
(***************************************************************************)
EXTENDS Integers, Sequences, FiniteSets, TLC

VARIABLES req, tmpfs, transcripts, now, processes, faults

vars == <<req, tmpfs, transcripts, now, processes, faults>>

(* ------------------------------ bounds --------------------------------- *)

\* Number of HTTP requests of one execution.
NReq == 2
\* Number of seconds the wall clock advances during one execution.
MaxClock == 1
\* Second of the day at which the execution starts (00:00:59, so that the
\* clock crosses a minute).
StartSecond == 59
\* Number of failures of the collaborators (file system, media library,
\* speech-to-text client) during one execution.
MaxFaults == 1

Req == 1..NReq

(* ------------------------------ strings -------------------------------- *)

\* None, for a string, a path, a byte count, an exception and a response.
None == <<"None">>
NoPath == <<0, "None">>
NoSize == [gib |-> -1, rem |-> 0]
NoException == [cls |-> "None", msg |-> "None"]
NoResponse == [status |-> 0, detail |-> <<>>]

\* s.startswith(p)
StartsWith(s, p) == Len(s) >= Len(p) /\ SubSeq(s, 1, Len(p)) = p

\* p in s, for strings
Contains(s, p) ==
    \E i \in 1..(Len(s) - Len(p) + 1) : SubSeq(s, i, i + Len(p) - 1) = p

Digits == <<"0", "1", "2", "3", "4", "5", "6", "7", "8", "9">>

Digit(d) == Digits[d + 1]

\* %H, %M, %S, %m, %d: two digits, zero padded
TwoDigits(n) == <<Digit((n \div 10) % 10), Digit(n % 10)>>

\* %Y
FourDigits(n) == TwoDigits(n \div 100) \o TwoDigits(n % 100)

(* ---------------------------- configuration ---------------------------- *)

\* len(content): a byte count of two limbs, gib * 2^30 + rem with
\* rem < 2^30 (2 * 1024 * 1024 * 1024 does not fit the checker's integers).
Bytes(g, r) == [gib |-> g, rem |-> r]

\* a >= b, where the code compares with >
GreaterOrEqual(a, b) == a.gib > b.gib \/ (a.gib = b.gib /\ a.rem >= b.rem)

\* a > b
Greater(a, b) == a.gib > b.gib \/ (a.gib = b.gib /\ a.rem > b.rem)

MAX_FILE_SIZE == Bytes(2, 0)

\* The lengths of the uploads: the ceiling, the ceiling plus one byte.
Sizes == {MAX_FILE_SIZE, Bytes(2, 1)}

\* Declared content types: absent, "video", "video/mp4".
ContentTypes ==
    { None,
      <<"v", "i", "d", "e", "o">>,
      <<"v", "i", "d", "e", "o", "/", "m", "p", "4">> }

VideoPrefix == <<"v", "i", "d", "e", "o", "/">>

\* file.content_type and file.content_type.startswith("video/")
IsVideoType(ct) == ct # None /\ ct # <<>> /\ StartsWith(ct, VideoPrefix)

\* The texts the transcription client returns.
Texts == { <<>>, <<"h", "o", "l", "a">> }

(* ------------------------------- clock --------------------------------- *)

\* datetime.now(), from the seconds since midnight of 2025-01-01
DateTimeNow(t) ==
    [ year |-> 2025, month |-> 1, day |-> 1,
      hour |-> (t \div 3600) % 24,
      minute |-> (t \div 60) % 60,
      second |-> t % 60 ]

\* strftime('%Y%m%d_%H%M%S')
Strftime(d) ==
    FourDigits(d.year) \o TwoDigits(d.month) \o TwoDigits(d.day) \o <<"_">>
    \o TwoDigits(d.hour) \o TwoDigits(d.minute) \o TwoDigits(d.second)

NamePrefix == <<"t", "r", "a", "n", "s", "c", "r", "i", "p", "t", "i", "o", "n", "_">>

NameSuffix == <<".", "t", "x", "t">>

\* f"transcription_{datetime.now().strftime('%Y%m%d_%H%M%S')}.txt"
TranscriptionFilename(t) == NamePrefix \o Strftime(DateTimeNow(t)) \o NameSuffix

(* ----------------------------- file system ----------------------------- *)

EmptyDir == [p \in {} |-> <<>>]

Exists(dir, p) == p \in DOMAIN dir

\* open(p, "w") and write: the file is created or replaced
WriteFile(dir, p, c) == [q \in DOMAIN dir \cup {p} |-> IF q = p THEN c ELSE dir[q]]

\* os.remove(p)
RemoveFile(dir, p) == [q \in DOMAIN dir \ {p} |-> dir[q]]

\* Names the temporary directory hands out: tmp<n>.mkv
TmpNames == 1..NReq

VideoPath(n) == <<n, "mkv">>

\* video_path + ".mp3"
AudioPath(video_path) == <<video_path[1], "mkv.mp3">>

(* ------------------------------ exceptions ----------------------------- *)

Exception(cls, msg) == [cls |-> cls, msg |-> msg]

\* raise HTTPException(status_code=..., detail=...)
HTTPException(status_code, detail) ==
    [cls |-> "HTTPException", msg |-> detail, status_code |-> status_code]

\* raise ValueError("No audio stream found in video")
NoAudioError == Exception("ValueError", "No audio stream found in video")

\* What the collaborators raise: the file system, the media library, the
\* remote client.
StageError == Exception("OSError", "cannot write the temporary video")
ExtractError == Exception("OSError", "cannot decode the video")
AudioReadError == Exception("FileNotFoundError", "cannot open the audio file")
ClientError == Exception("ApiError", "speech to text request failed")
SaveError == Exception("OSError", "cannot write the transcription")
RemoveError == Exception("PermissionError", "cannot remove the file")

\* isinstance(e, ValueError)
IsValueError(e) == e.cls = "ValueError"

(* ------------------------------- requests ------------------------------ *)

\* A request slot before its request arrives.
IdleRequest ==
    [ pc |-> "idle",
      app |-> "app.main",           \* the application that handles it
      content_type |-> None,        \* file.content_type
      size |-> NoSize,              \* len(content), once read
      filename |-> None,            \* the {filename} of a download
      upload |-> None,              \* file.filename or "unknown_file"
      errors |-> <<>>,              \* its logger.error entries, in order
      temp_video_path |-> NoPath,
      temp_audio_path |-> NoPath,
      transcription_text |-> None,
      transcription_filename |-> None,
      exc |-> NoException,          \* the exception in flight
      resp |-> NoResponse,          \* the HTTP response
      \* what the request did so far, for the properties
      rejected |-> "no",            \* "type" or "size"
      invoked |-> FALSE,            \* process_video was called
      staged |-> {},                \* temporary files it created
      audio |-> "unknown",          \* whether the staged video has audio
      client |-> "not called",      \* outcome of the transcription client
      wrote |-> {},                 \* transcript files it opened for writing
      consulted |-> FALSE,          \* transcription_file_exists was called
      resolved |-> FALSE ]          \* get_transcription_file_path was called

Response(status, detail) == [status |-> status, detail |-> detail]

\* logger.error(..): an entry of level ERROR, with the filename and the
\* error message that its text carries (None when it carries none).
ErrorEntry(filename, error) ==
    [levelname |-> "ERROR", filename |-> filename, error |-> error]

\* file.filename of the uploads
UploadName == <<"v", ".", "m", "k", "v">>

\* transcribe_video: except ValueError / except Exception
TranscribeExcept(e) ==
    IF IsValueError(e)
    THEN Response(400, <<e.msg>>)
    ELSE Response(500, <<"Error processing video: ", e.msg>>)

\* transcribe_video: the returned dict
TranscribeReturn(text, name) ==
    [ status |-> 200,
      detail |-> <<"Transcription completed successfully">>,
      transcription_file |-> name,
      text_length |-> Len(text) ]

\* The server has started: no request yet, both directories empty.
Started ==
    /\ req = [r \in Req |-> IdleRequest]
    /\ tmpfs = EmptyDir
    /\ transcripts = EmptyDir
    /\ now = StartSecond
    /\ faults = 0

\* One server process.
Init == Started /\ processes = "one"

\* Several server processes over the same directories.
InitWorkers == Started /\ processes = "many"

\* A collaborator fails: an exception out of the file system, the media
\* library or the client.
Fails ==
    /\ faults < MaxFaults
    /\ faults' = faults + 1

\* The wall clock advances by one second.
Tick ==
    /\ now < StartSecond + MaxClock
    /\ now' = now + 1
    /\ UNCHANGED <<req, tmpfs, transcripts, processes, faults>>

\* Request r is inside process_video.
InPipeline(r) ==
    req[r].pc \in {"stage", "extract", "transcribe", "save",
                   "cleanup_video", "cleanup_audio"}

\* The handler of request r may take a step. In one server process the
\* handlers are coroutines of one event loop, and process_video is an
\* ordinary call inside `async def transcribe_video`: no other handler runs
\* until it has returned (the handlers give up control at
\* `await file.read()` and while a FileResponse is sent). With several
\* server processes over the same directories the steps of the pipelines
\* interleave at the file-system operations.
Runs(r) ==
    processes = "many" \/ \A q \in Req \ {r} : ~InPipeline(q)

\* Request r arrives: the requests are numbered in the order in which
\* their handlers start.
Arrives(r) ==
    /\ req[r].pc = "idle"
    /\ \A q \in Req : q < r => req[q].pc # "idle"
    /\ Runs(r)

(* --------------------------- POST /transcribe -------------------------- *)

\* transcribe_video, up to `await file.read()`: the content type check.
ValidateType(r, ct) ==
    /\ Arrives(r)
    /\ IF ~IsVideoType(ct)
       THEN req' = [req EXCEPT ![r] =
                [@ EXCEPT !.pc = "done", !.content_type = ct, !.rejected = "type",
                          !.upload = UploadName,
                          !.errors = <<ErrorEntry(None, "Invalid file type"),
                                       ErrorEntry(UploadName, "File must be a video")>>,
                          !.resp = TranscribeExcept(HTTPException(400,
                                       "File must be a video"))]]
       ELSE req' = [req EXCEPT ![r] =
                [@ EXCEPT !.pc = "read", !.content_type = ct,
                          !.upload = UploadName]]
    /\ UNCHANGED <<tmpfs, transcripts, now, processes, faults>>

\* transcribe_video, after `await file.read()`: the size check, then the
\* call of process_video.
CheckSize(r, n) ==
    /\ req[r].pc = "read"
    /\ Runs(r)
    /\ IF Greater(n, MAX_FILE_SIZE)
       THEN req' = [req EXCEPT ![r] =
                [@ EXCEPT !.pc = "done", !.size = n, !.rejected = "size",
                          !.errors = <<ErrorEntry(None, "File too large"),
                                       ErrorEntry(req[r].upload, "File too large")>>,
                          !.resp = TranscribeExcept(HTTPException(400,
                                       "File too large"))]]
       ELSE req' = [req EXCEPT ![r] =
                [@ EXCEPT !.pc = "stage", !.size = n, !.invoked = TRUE]]
    /\ UNCHANGED <<tmpfs, transcripts, now, processes, faults>>

\* process_video's except clause: log, re-raise; the finally clause is next.
Raise(r, e) ==
    [req[r] EXCEPT !.pc = "cleanup_video", !.exc = e,
                   !.errors = Append(@, ErrorEntry(req[r].upload, e.msg))]

\* Name n has left a trace: a file with that name, or with that name and
\* ".mp3", is on disk.
InUse(n) == Exists(tmpfs, VideoPath(n)) \/ Exists(tmpfs, AudioPath(VideoPath(n)))

\* The names NamedTemporaryFile may pick: any name that is not on disk.
\* The names that left no trace are interchangeable, the least of them
\* stands for all.
FreeNames ==
    { n \in TmpNames :
        /\ ~Exists(tmpfs, VideoPath(n))
        /\ InUse(n) \/ \A m \in TmpNames : m < n => InUse(m) }

\* _save_temp_video: NamedTemporaryFile(delete=False) picks a name that is
\* not on disk, creates the file and writes the bytes.
SaveTempVideo(r) ==
    /\ req[r].pc = "stage"
    /\ \/ \* the file cannot be created
          /\ Fails
          /\ req' = [req EXCEPT ![r] = Raise(r, StageError)]
          /\ UNCHANGED tmpfs
       \/ \* the file is created, the write fails: the name is not returned
          \E n \in FreeNames :
             /\ Fails
             /\ tmpfs' = WriteFile(tmpfs, VideoPath(n), r)
             /\ req' = [req EXCEPT ![r] =
                    [Raise(r, StageError) EXCEPT !.staged = @ \cup {VideoPath(n)}]]
       \/ \E n \in FreeNames :
             /\ tmpfs' = WriteFile(tmpfs, VideoPath(n), r)
             /\ req' = [req EXCEPT ![r] =
                    [@ EXCEPT !.pc = "extract",
                              !.temp_video_path = VideoPath(n),
                              !.staged = @ \cup {VideoPath(n)}]]
             /\ UNCHANGED faults
    /\ UNCHANGED <<transcripts, now, processes>>

\* _extract_audio: VideoFileClip(video_path), the audio check,
\* write_audiofile(video_path + ".mp3").
ExtractAudio(r) ==
    /\ req[r].pc = "extract"
    /\ LET video_path == req[r].temp_video_path
           audio_path == AudioPath(video_path)
       IN \/ \* the media library fails before it writes anything
             /\ Fails
             /\ req' = [req EXCEPT ![r] = Raise(r, ExtractError)]
             /\ UNCHANGED tmpfs
          \/ \* video.audio is None
             /\ req' = [req EXCEPT ![r] =
                    [Raise(r, NoAudioError) EXCEPT !.audio = "no"]]
             /\ UNCHANGED <<tmpfs, faults>>
          \/ \* write_audiofile fails after it created the .mp3 file
             /\ Fails
             /\ tmpfs' = WriteFile(tmpfs, audio_path, r)
             /\ req' = [req EXCEPT ![r] =
                    [Raise(r, ExtractError) EXCEPT !.audio = "yes",
                                                  !.staged = @ \cup {audio_path}]]
          \/ /\ tmpfs' = WriteFile(tmpfs, audio_path, r)
             /\ req' = [req EXCEPT ![r] =
                    [@ EXCEPT !.pc = "transcribe", !.audio = "yes",
                              !.temp_audio_path = audio_path,
                              !.staged = @ \cup {audio_path}]]
             /\ UNCHANGED faults
    /\ UNCHANGED <<transcripts, now, processes>>

\* _transcribe_audio that swallows the client's exception and goes on with
\* an empty text.
TranscribeAudio_SwallowsError(r) ==
    /\ req[r].pc = "transcribe"
    /\ IF ~Exists(tmpfs, req[r].temp_audio_path)
       THEN /\ req' = [req EXCEPT ![r] = Raise(r, AudioReadError)]
            /\ UNCHANGED faults
       ELSE \/ /\ Fails
               /\ req' = [req EXCEPT ![r] =
                    [@ EXCEPT !.pc = "save", !.client = "raised",
                              !.transcription_text = <<>>]]
            \/ \E t \in Texts :
                  /\ req' = [req EXCEPT ![r] =
                        [@ EXCEPT !.pc = "save", !.client = "returned",
                                  !.transcription_text = t]]
                  /\ UNCHANGED faults
    /\ UNCHANGED <<tmpfs, transcripts, now, processes>>

\* _transcribe_audio: read the audio file, call speech_to_text.convert.
TranscribeAudio(r) ==
    /\ req[r].pc = "transcribe"
    /\ IF ~Exists(tmpfs, req[r].temp_audio_path)
       THEN /\ req' = [req EXCEPT ![r] = Raise(r, AudioReadError)]
            /\ UNCHANGED faults
       ELSE \/ /\ Fails
               /\ req' = [req EXCEPT ![r] =
                    [Raise(r, ClientError) EXCEPT !.client = "raised"]]
            \/ \E t \in Texts :
                  /\ req' = [req EXCEPT ![r] =
                        [@ EXCEPT !.pc = "save", !.client = "returned",
                                  !.transcription_text = t]]
                  /\ UNCHANGED faults
    /\ UNCHANGED <<tmpfs, transcripts, now, processes>>

\* _save_transcription: the name from the clock, makedirs, open(.., "w"),
\* write.
SaveTranscription(r) ==
    /\ req[r].pc = "save"
    /\ LET transcription_filename == TranscriptionFilename(now)
       IN \/ \* makedirs or open fails
             /\ Fails
             /\ req' = [req EXCEPT ![r] = Raise(r, SaveError)]
             /\ UNCHANGED transcripts
          \/ \* open(.., "w") truncates, the write fails
             /\ Fails
             /\ transcripts' = WriteFile(transcripts, transcription_filename, <<>>)
             /\ req' = [req EXCEPT ![r] =
                    [Raise(r, SaveError) EXCEPT
                        !.wrote = @ \cup {transcription_filename}]]
          \/ /\ transcripts' = WriteFile(transcripts, transcription_filename,
                                          req[r].transcription_text)
             /\ req' = [req EXCEPT ![r] =
                    [@ EXCEPT !.pc = "cleanup_video",
                              !.transcription_filename = transcription_filename,
                              !.wrote = @ \cup {transcription_filename}]]
             /\ UNCHANGED faults
    /\ UNCHANGED <<tmpfs, now, processes>>

\* _cleanup_temp_files(file_path), called from process_video's finally
\* clause when file_path is set: os.remove under try/except, a failure is
\* logged and swallowed.
CleanupTempFiles(r, file_path, next, next_logged) ==
    /\ IF file_path # NoPath /\ Exists(tmpfs, file_path)
       THEN \/ /\ tmpfs' = RemoveFile(tmpfs, file_path)
               /\ req' = [req EXCEPT ![r] = next]
               /\ UNCHANGED faults
            \/ /\ Fails               \* os.remove raised
               /\ req' = [req EXCEPT ![r] = next_logged]
               /\ UNCHANGED tmpfs
       ELSE /\ req' = [req EXCEPT ![r] = next]
            /\ UNCHANGED <<tmpfs, faults>>
    /\ UNCHANGED <<transcripts, now, processes>>

\* except Exception as e: logger.error("Failed to remove temporary file ..")
RemoveFailed(q) ==
    [q EXCEPT !.errors = Append(@, ErrorEntry(None, RemoveError.msg))]

\* The finally clause goes on to its second statement.
ThenAudio(q) == [q EXCEPT !.pc = "cleanup_audio"]

\* finally: if temp_video_path: self._cleanup_temp_files(temp_video_path)
CleanupVideo(r) ==
    /\ req[r].pc = "cleanup_video"
    /\ CleanupTempFiles(r, req[r].temp_video_path,
                        ThenAudio(req[r]), ThenAudio(RemoveFailed(req[r])))

\* transcribe_video after process_video returned or raised: the response.
\* The locals of process_video are gone.
Respond(q) ==
    [IdleRequest EXCEPT
        !.pc = "done",
        !.content_type = q.content_type,
        !.size = q.size,
        !.invoked = q.invoked,
        !.exc = q.exc,
        !.upload = q.upload,
        !.errors = IF q.exc = NoException
                   THEN q.errors
                   ELSE Append(q.errors, ErrorEntry(q.upload, q.exc.msg)),
        !.resp = IF q.exc = NoException
                 THEN TranscribeReturn(q.transcription_text,
                                       q.transcription_filename)
                 ELSE TranscribeExcept(q.exc)]

\* finally: if temp_audio_path: self._cleanup_temp_files(temp_audio_path);
\* process_video then returns or re-raises into transcribe_video, which
\* answers without giving up control.
CleanupAudio(r) ==
    /\ req[r].pc = "cleanup_audio"
    /\ CleanupTempFiles(r, req[r].temp_audio_path,
                        Respond(req[r]), Respond(RemoveFailed(req[r])))

(* ------------------- GET /download-transcription/{filename} ----------- *)

\* settings.TRANSCRIPTIONS_DIR = "transcriptions"
TRANSCRIPTIONS_DIR ==
    <<"t", "r", "a", "n", "s", "c", "r", "i", "p", "t", "i", "o", "n", "s">>

\* os.path.join(a, b): b alone when it is absolute
Join(a, b) ==
    IF b # <<>> /\ b[1] = "/" THEN b ELSE a \o <<"/">> \o b

\* The components of a path, split at "/".
RECURSIVE Split(_)
Split(path) ==
    IF \A i \in 1..Len(path) : path[i] # "/"
    THEN <<path>>
    ELSE LET i == CHOOSE k \in 1..Len(path) :
                    path[k] = "/" /\ \A j \in 1..(k - 1) : path[j] # "/"
         IN <<SubSeq(path, 1, i - 1)>> \o Split(SubSeq(path, i + 1, Len(path)))

\* The components the kernel walks: "" and "." stay in place, ".." goes up
\* (above the working directory it is kept).
RECURSIVE Walk(_, _)
Walk(done, rest) ==
    IF rest = <<>> THEN done
    ELSE LET c == Head(rest)
         IN IF c = <<>> \/ c = <<".">>
            THEN Walk(done, Tail(rest))
            ELSE IF c = <<".", ".">> /\ done # <<>> /\ done[Len(done)] # <<".", ".">>
            THEN Walk(SubSeq(done, 1, Len(done) - 1), Tail(rest))
            ELSE Walk(Append(done, c), Tail(rest))

\* Where a path leads from the working directory of the server.
Resolve(path) ==
    [ absolute |-> path # <<>> /\ path[1] = "/",
      parts |-> Walk(<<>>, Split(path)) ]

\* The file beside the transcripts directory: .env, which holds the API key.
EnvFile == <<".", "e", "n", "v">>

EnvContent == <<"k", "e", "y">>

\* os.makedirs(TRANSCRIPTIONS_DIR) has run, dir being the content of the
\* transcripts directory: the directory is created by the first save and
\* nothing is ever deleted from it.
DirExistsIn(dir) == DOMAIN dir # {}

DirExists == DirExistsIn(transcripts)

\* The path names a regular file, dir being the content of the transcripts
\* directory.
IsFileIn(dir, path) ==
    LET p == Resolve(path)
    IN /\ ~p.absolute
       /\ DirExistsIn(dir)
       /\ \/ p.parts = <<EnvFile>>
          \/ /\ Len(p.parts) = 2
             /\ p.parts[1] = TRANSCRIPTIONS_DIR
             /\ Exists(dir, p.parts[2])

\* The path names a regular file.
IsFile(path) == IsFileIn(transcripts, path)

\* The path names a directory: the working directory or the transcripts
\* directory.
IsDirIn(dir, path) ==
    LET p == Resolve(path)
    IN /\ ~p.absolute
       /\ DirExistsIn(dir)
       /\ p.parts \in {<<>>, <<TRANSCRIPTIONS_DIR>>}

IsDir(path) == IsDirIn(transcripts, path)

\* The bytes of a regular file.
ReadFileIn(dir, path) ==
    LET p == Resolve(path)
    IN IF p.parts = <<EnvFile>> THEN EnvContent ELSE dir[p.parts[2]]

ReadFile(path) == ReadFileIn(transcripts, path)

\* The path without the transcripts directory.
get_transcription_file_path_NoDir(filename) == filename

\* get_transcription_file_path
get_transcription_file_path(filename) == Join(TRANSCRIPTIONS_DIR, filename)

\* transcription_file_exists: os.path.exists of the joined path
transcription_file_exists(filename) ==
    LET file_path == get_transcription_file_path(filename)
    IN IsFile(file_path) \/ IsDir(file_path)

\* The filenames of the download requests: the names the pipeline gives
\* its transcripts, ".", "../.env", "a/b", "a..b".
DownloadNames ==
    { TranscriptionFilename(t) : t \in StartSecond..(StartSecond + MaxClock) }
    \cup { <<".">>,
           <<".", ".", "/", ".", "e", "n", "v">>,
           <<"a", "/", "b">>,
           <<"a", ".", ".", "b">> }

\* The validation without its ".." and "/" checks.
InvalidFilename_EmptyOnly(filename) == filename = <<>>

\* not filename or ".." in filename or "/" in filename
InvalidFilename(filename) ==
    \/ filename = <<>>
    \/ Contains(filename, <<".", ".">>)
    \/ Contains(filename, <<"/">>)

\* FileResponse(file_path, filename=filename); the body is read when the
\* response is sent.
FileResponse(file_path, filename) ==
    [ status |-> 200, detail |-> <<>>, path |-> file_path,
      filename |-> filename, body |-> None ]

\* download_transcription, the whole handler.
DownloadTranscription(r, filename) ==
    /\ Arrives(r)
    /\ IF InvalidFilename(filename)
       THEN req' = [req EXCEPT ![r] =
                [@ EXCEPT !.pc = "done", !.filename = filename,
                          !.resp = Response(400, <<"Invalid filename">>)]]
       ELSE IF ~transcription_file_exists(filename)
       THEN req' = [req EXCEPT ![r] =
                [@ EXCEPT !.pc = "done", !.filename = filename,
                          !.consulted = TRUE, !.resolved = TRUE,
                          !.errors = <<ErrorEntry(filename,
                                          "Transcription file not found")>>,
                          !.resp = Response(404, <<"Transcription file not found">>)]]
       ELSE req' = [req EXCEPT ![r] =
                [@ EXCEPT !.pc = "send", !.filename = filename,
                          !.consulted = TRUE, !.resolved = TRUE,
                          !.resp = FileResponse(get_transcription_file_path(filename),
                                                filename)]]
    /\ UNCHANGED <<tmpfs, transcripts, now, processes, faults>>

\* The framework sends the FileResponse: the bytes of the file as it is
\* then, or a server error when the path is not a regular file.
SendFile(r) ==
    /\ req[r].pc = "send"
    /\ Runs(r)
    /\ IF IsFile(req[r].resp.path)
       THEN req' = [req EXCEPT ![r] =
                [@ EXCEPT !.pc = "done",
                          !.resp = [@ EXCEPT !.body = ReadFile(req[r].resp.path)]]]
       ELSE req' = [req EXCEPT ![r] =
                [@ EXCEPT !.pc = "done",
                          !.resp = Response(500, <<"Internal Server Error">>)]]
    /\ UNCHANGED <<tmpfs, transcripts, now, processes, faults>>

Next ==
    \/ Tick
    \/ \E r \in Req :
          \/ \E ct \in ContentTypes : ValidateType(r, ct)
          \/ \E n \in Sizes : CheckSize(r, n)
          \/ SaveTempVideo(r)
          \/ ExtractAudio(r)
          \/ TranscribeAudio(r)
          \/ SaveTranscription(r)
          \/ CleanupVideo(r)
          \/ CleanupAudio(r)
          \/ \E filename \in DownloadNames : DownloadTranscription(r, filename)
          \/ SendFile(r)

\* One server process.
Spec == Init /\ [][Next]_vars

(* ------------------- src/main.py: the legacy /transcribe --------------- *)

\* The returned dict of the legacy handler.
LegacyReturn(name) ==
    [ status |-> 200,
      detail |-> <<"Transcription completed successfully">>,
      transcription_file |-> name ]

\* The legacy handler answers: its return statement, or its one except
\* clause (log_transcription_error, HTTPException(500)). Its locals are
\* gone.
LegacyAnswer(q) ==
    [IdleRequest EXCEPT
        !.pc = "done",
        !.app = "main",
        !.content_type = q.content_type,
        !.size = q.size,
        !.upload = q.upload,
        !.rejected = q.rejected,
        !.exc = q.exc,
        !.errors = IF q.exc = NoException
                   THEN q.errors
                   ELSE Append(q.errors, ErrorEntry(q.upload, q.exc.msg)),
        !.resp = IF q.exc = NoException
                 THEN LegacyReturn(q.transcription_filename)
                 ELSE Response(500, <<"Error processing video: ", q.exc.msg>>)]

\* An exception inside the try block of the legacy handler.
LegacyRaise(r, e) == LegacyAnswer([req[r] EXCEPT !.exc = e])

\* Legacy transcribe_video up to NamedTemporaryFile: the content type check.
LegacyValidateType(r, ct) ==
    /\ Arrives(r)
    /\ IF ~IsVideoType(ct)
       THEN req' = [req EXCEPT ![r] =
                LegacyAnswer([@ EXCEPT
                    !.content_type = ct, !.upload = UploadName,
                    !.rejected = "type",
                    !.errors = <<ErrorEntry(None, "Invalid file type")>>,
                    !.exc = HTTPException(400, "File must be a video")])]
       ELSE req' = [req EXCEPT ![r] =
                [@ EXCEPT !.pc = "legacy_stage", !.app = "main",
                          !.content_type = ct, !.upload = UploadName]]
    /\ UNCHANGED <<tmpfs, transcripts, now, processes, faults>>

\* with NamedTemporaryFile(delete=False, suffix=".mkv"): await file.read(),
\* write. No size check.
LegacySaveTempVideo(r, n) ==
    /\ req[r].pc = "legacy_stage"
    /\ \/ \* the file cannot be created
          /\ Fails
          /\ req' = [req EXCEPT ![r] = LegacyRaise(r, StageError)]
          /\ UNCHANGED tmpfs
       \/ \* the file is created, the write fails
          \E m \in FreeNames :
             /\ Fails
             /\ tmpfs' = WriteFile(tmpfs, VideoPath(m), r)
             /\ req' = [req EXCEPT ![r] =
                    LegacyAnswer([@ EXCEPT !.size = n, !.exc = StageError])]
       \/ \E m \in FreeNames :
             /\ tmpfs' = WriteFile(tmpfs, VideoPath(m), r)
             /\ req' = [req EXCEPT ![r] =
                    [@ EXCEPT !.pc = "legacy_extract", !.size = n,
                              !.temp_video_path = VideoPath(m)]]
             /\ UNCHANGED faults
    /\ UNCHANGED <<transcripts, now, processes>>

\* VideoFileClip(tmp_file_path), the audio check with its os.remove,
\* write_audiofile(tmp_file_path + ".mp3").
LegacyExtractAudio(r) ==
    /\ req[r].pc = "legacy_extract"
    /\ LET tmp_file_path == req[r].temp_video_path
           audio_path == AudioPath(tmp_file_path)
       IN \/ \* the media library fails before it writes anything
             /\ Fails
             /\ req' = [req EXCEPT ![r] = LegacyRaise(r, ExtractError)]
             /\ UNCHANGED tmpfs
          \/ \* video.audio is None: os.remove(tmp_file_path), HTTPException(400)
             /\ Exists(tmpfs, tmp_file_path)
             /\ tmpfs' = RemoveFile(tmpfs, tmp_file_path)
             /\ req' = [req EXCEPT ![r] =
                    LegacyAnswer([@ EXCEPT
                        !.errors = Append(@, ErrorEntry(None,
                                       "No audio stream found in video file")),
                        !.exc = HTTPException(400,
                                       "No audio stream found in video")])]
             /\ UNCHANGED faults
          \/ \* video.audio is None, os.remove raises
             /\ Fails
             /\ req' = [req EXCEPT ![r] =
                    LegacyAnswer([@ EXCEPT
                        !.errors = Append(@, ErrorEntry(None,
                                       "No audio stream found in video file")),
                        !.exc = RemoveError])]
             /\ UNCHANGED tmpfs
          \/ \* write_audiofile fails after it created the .mp3 file
             /\ Fails
             /\ tmpfs' = WriteFile(tmpfs, audio_path, r)
             /\ req' = [req EXCEPT ![r] = LegacyRaise(r, ExtractError)]
          \/ /\ tmpfs' = WriteFile(tmpfs, audio_path, r)
             /\ req' = [req EXCEPT ![r] =
                    [@ EXCEPT !.pc = "legacy_transcribe",
                              !.temp_audio_path = audio_path]]
             /\ UNCHANGED faults
    /\ UNCHANGED <<transcripts, now, processes>>

\* open(audio_path, "rb"), elevenlabs.speech_to_text.convert
LegacyTranscribeAudio(r) ==
    /\ req[r].pc = "legacy_transcribe"
    /\ IF ~Exists(tmpfs, req[r].temp_audio_path)
       THEN /\ req' = [req EXCEPT ![r] = LegacyRaise(r, AudioReadError)]
            /\ UNCHANGED faults
       ELSE \/ /\ Fails
               /\ req' = [req EXCEPT ![r] = LegacyRaise(r, ClientError)]
            \/ \E t \in Texts :
                  /\ req' = [req EXCEPT ![r] =
                        [@ EXCEPT !.pc = "legacy_save",
                                  !.transcription_text = t]]
                  /\ UNCHANGED faults
    /\ UNCHANGED <<tmpfs, transcripts, now, processes>>

\* The name from the clock, makedirs, open(.., "w"), write.
LegacySaveTranscription(r) ==
    /\ req[r].pc = "legacy_save"
    /\ LET transcription_filename == TranscriptionFilename(now)
       IN \/ \* makedirs or open fails
             /\ Fails
             /\ req' = [req EXCEPT ![r] = LegacyRaise(r, SaveError)]
             /\ UNCHANGED transcripts
          \/ \* open(.., "w") truncates, the write fails
             /\ Fails
             /\ transcripts' = WriteFile(transcripts, transcription_filename, <<>>)
             /\ req' = [req EXCEPT ![r] = LegacyRaise(r, SaveError)]
          \/ /\ transcripts' = WriteFile(transcripts, transcription_filename,
                                          req[r].transcription_text)
             /\ req' = [req EXCEPT ![r] =
                    [@ EXCEPT !.pc = "legacy_remove_video",
                              !.transcription_filename = transcription_filename]]
             /\ UNCHANGED faults
    /\ UNCHANGED <<tmpfs, now, processes>>

\* os.remove(file_path) in the try block of the legacy handler: a missing
\* file, or any other failure, is an exception.
LegacyRemove(r, file_path, next) ==
    /\ IF Exists(tmpfs, file_path)
       THEN \/ /\ tmpfs' = RemoveFile(tmpfs, file_path)
               /\ req' = [req EXCEPT ![r] = next]
               /\ UNCHANGED faults
            \/ /\ Fails
               /\ req' = [req EXCEPT ![r] = LegacyRaise(r, RemoveError)]
               /\ UNCHANGED tmpfs
       ELSE /\ req' = [req EXCEPT ![r] = LegacyRaise(r, RemoveError)]
            /\ UNCHANGED <<tmpfs, faults>>
    /\ UNCHANGED <<transcripts, now, processes>>

\* The legacy handler goes on to os.remove(audio_path).
ThenLegacyAudio(q) == [q EXCEPT !.pc = "legacy_remove_audio"]

\* os.remove(tmp_file_path)
LegacyRemoveVideo(r) ==
    /\ req[r].pc = "legacy_remove_video"
    /\ LegacyRemove(r, req[r].temp_video_path, ThenLegacyAudio(req[r]))

\* os.remove(audio_path), then the return statement.
LegacyRemoveAudio(r) ==
    /\ req[r].pc = "legacy_remove_audio"
    /\ LegacyRemove(r, req[r].temp_audio_path, LegacyAnswer(req[r]))

\* The two applications side by side, each with its /transcribe.
NextLegacy ==
    \/ Tick
    \/ \E r \in Req :
          \/ \E ct \in ContentTypes : ValidateType(r, ct)
          \/ \E n \in Sizes : CheckSize(r, n)
          \/ SaveTempVideo(r)
          \/ ExtractAudio(r)
          \/ TranscribeAudio(r)
          \/ SaveTranscription(r)
          \/ CleanupVideo(r)
          \/ CleanupAudio(r)
          \/ \E ct \in ContentTypes : LegacyValidateType(r, ct)
          \/ \E n \in Sizes : LegacySaveTempVideo(r, n)
          \/ LegacyExtractAudio(r)
          \/ LegacyTranscribeAudio(r)
          \/ LegacySaveTranscription(r)
          \/ LegacyRemoveVideo(r)
          \/ LegacyRemoveAudio(r)

\* The structured application and the legacy application, one server
\* process each, over the same directories.
SpecLegacy == InitWorkers /\ [][NextLegacy]_vars

\* Several server processes over the same directories.
SpecWorkers == InitWorkers /\ [][Next]_vars

(* ------------------------------ properties ----------------------------- *)

\* The request is a transcribe request whose handler has answered.
Answered(r) == req[r].pc = "done" /\ req[r].filename = None

\* The request is a download request whose handler has answered.
Downloaded(r) == req[r].pc = "done" /\ req[r].filename # None

\* process_video returns or raises in this step: its finally clause ends.
Finishes(r) == req[r].pc = "cleanup_audio" /\ req'[r].pc = "done"

\* Temporary files that request r created and that are on disk after the
\* step.
Residue(r) == { p \in req[r].staged : Exists(tmpfs', p) /\ tmpfs'[p] = r }

\* C1: when a process_video invocation returns or raises, none of the
\* temporary files it created (the staged video, the extracted .mp3) is on
\* disk, whatever step failed and wherever in the step.
C1_NoTempFileRemains ==
    [][\A r \in Req : Finishes(r) => Residue(r) = {}]_vars

\* C2: every transcribe request that the upload validation rejects, for its
\* content type or for its size, is answered with status 400.
C2_RejectedIs400 ==
    \A r \in Req : req[r].rejected # "no" => req[r].resp.status = 400

\* C3: for a staged video without an audio stream process_video raises a
\* ValueError, answered with 400; the transcription client is not called,
\* no transcript is written and no temporary file of the invocation remains.
C3_NoAudio ==
    [][\A r \in Req :
          (Finishes(r) /\ req[r].audio = "no") =>
              /\ IsValueError(req[r].exc)
              /\ req'[r].resp.status = 400
              /\ req[r].client = "not called"
              /\ req[r].wrote = {}
              /\ Residue(r) = {}]_vars

\* The part of C3 that the cleanup does not decide.
C3_NoAudioIs400 ==
    [][\A r \in Req :
          (Finishes(r) /\ req[r].audio = "no") =>
              /\ IsValueError(req[r].exc)
              /\ req'[r].resp.status = 400
              /\ req[r].client = "not called"
              /\ req[r].wrote = {}]_vars

\* C4: an upload rejected for its content type or its size is rejected
\* before the pipeline starts: process_video is not invoked, no temporary
\* file is staged, the rejecting step leaves both directories as they are;
\* and an upload of exactly MAX_FILE_SIZE bytes is not rejected for size.
C4_RejectedBeforePipeline ==
    /\ [](\A r \in Req :
            /\ req[r].rejected # "no" =>
                  /\ ~req[r].invoked
                  /\ req[r].staged = {}
                  /\ req[r].wrote = {}
                  /\ req[r].pc = "done"
            /\ req[r].size = MAX_FILE_SIZE => req[r].rejected # "size")
    /\ [][\A r \in Req :
            (req[r].rejected = "no" /\ req'[r].rejected # "no") =>
                (tmpfs' = tmpfs /\ transcripts' = transcripts)]_vars

\* C4 happens: one upload is rejected for its size while another, of
\* exactly MAX_FILE_SIZE bytes, has entered the pipeline and staged a file.
C4_Witness ==
    \E r1, r2 \in Req :
        /\ req[r1].rejected = "size"
        /\ req[r2].size = MAX_FILE_SIZE
        /\ req[r2].invoked
        /\ req[r2].staged # {}

\* The path stays in the transcripts directory.
Inside(path) ==
    LET p == Resolve(path)
    IN ~p.absolute /\ p.parts # <<>> /\ p.parts[1] = TRANSCRIPTIONS_DIR

\* C5: a download whose filename contains ".." or "/" is answered with 400
\* and neither transcription_file_exists nor get_transcription_file_path is
\* called for it; no response serves a path outside the transcripts
\* directory, nor the bytes of a file outside it.
C5_TraversalRejected ==
    \A r \in Req :
        /\ ( /\ req[r].filename # None
             /\ \/ Contains(req[r].filename, <<".", ".">>)
                \/ Contains(req[r].filename, <<"/">>) ) =>
                /\ req[r].pc = "done"
                /\ req[r].resp.status = 400
                /\ ~req[r].consulted
                /\ ~req[r].resolved
        /\ (req[r].filename # None /\ req[r].resp.status = 200) =>
                /\ Inside(req[r].resp.path)
                /\ req[r].resp.body # EnvContent

\* C5 happens: "../.env" was asked for, and refused, while the transcripts
\* directory exists, so that the path would have led to the file.
C5_Witness ==
    \E r \in Req :
        /\ req[r].filename = <<".", ".", "/", ".", "e", "n", "v">>
        /\ req[r].resp.status = 400
        /\ IsFile(get_transcription_file_path(req[r].filename))

IsDigit(c) == \E d \in 0..9 : c = Digit(d)

\* transcription_<YYYYMMDD>_<HHMMSS>.txt
MatchesPattern(name) ==
    /\ Len(name) = 33
    /\ SubSeq(name, 1, 14) = NamePrefix
    /\ \A i \in 15..22 : IsDigit(name[i])
    /\ name[23] = "_"
    /\ \A i \in 24..29 : IsDigit(name[i])
    /\ SubSeq(name, 30, 33) = NameSuffix

\* process_video returns (text, filename) to the endpoint in this step.
Returns(r) ==
    /\ req[r].pc = "cleanup_audio"
    /\ req'[r].pc = "done"
    /\ req[r].exc = NoException

\* C6: when process_video returns (text, filename), filename has the form
\* transcription_<YYYYMMDD>_<HHMMSS>.txt, text is not empty, and the file
\* of that name is in the transcripts directory and holds exactly text.
C6_ReturnedTranscript ==
    [][\A r \in Req :
          Returns(r) =>
             /\ MatchesPattern(req[r].transcription_filename)
             /\ req[r].transcription_text # <<>>
             /\ Exists(transcripts', req[r].transcription_filename)
             /\ transcripts'[req[r].transcription_filename]
                   = req[r].transcription_text]_vars

\* The part of C6 that holds: the name has the form and the file exists.
C6_NameAndFile ==
    [][\A r \in Req :
          Returns(r) =>
             /\ MatchesPattern(req[r].transcription_filename)
             /\ Exists(transcripts', req[r].transcription_filename)]_vars

\* C7: a transcript file is written only by an invocation whose
\* transcription client has returned: an invocation in which staging,
\* extraction or transcription failed has written nothing, and every change
\* of the transcripts directory is the save step of such an invocation.
C7_SaveOnlyAfterTranscription ==
    /\ [](\A r \in Req :
            /\ req[r].wrote # {} =>
                  (req[r].client = "returned" /\ req[r].transcription_text # None)
            /\ req[r].exc \in {StageError, ExtractError, NoAudioError,
                                AudioReadError, ClientError} => req[r].wrote = {})
    /\ [][transcripts' # transcripts =>
            \E r \in Req :
                /\ req[r].pc = "save"
                /\ req[r].client = "returned"
                /\ req'[r].wrote # {}]_vars

\* C7 happens: one invocation's transcription call has failed and the
\* invocation is over, another invocation has saved a transcript.
C7_Witness ==
    \E r1, r2 \in Req :
        /\ Answered(r1)
        /\ req[r1].exc = ClientError
        /\ req[r2].wrote # {}
        /\ req[r2].exc = NoException

\* C8: a transcript file, once created, keeps its content through every
\* later step, and every successful save creates a file that was not there.
C8_TranscriptImmutable ==
    [][/\ \A f \in DOMAIN transcripts :
             f \in DOMAIN transcripts' /\ transcripts'[f] = transcripts[f]
       /\ \A r \in Req :
             (req[r].pc = "save" /\ req'[r].pc = "cleanup_video"
                /\ req'[r].exc = NoException) =>
                 ~Exists(transcripts, req'[r].transcription_filename)]_vars

\* C9: an exception of the media library or of the transcription call
\* ends the pipeline (no later step runs), the temporary files created so
\* far are removed, and the endpoint answers 500 with the error string of
\* that exception, also when a removal failed.
C9_FailurePropagation ==
    [][\A r \in Req :
          (Finishes(r) /\ req[r].exc \in {ExtractError, AudioReadError, ClientError}) =>
              /\ req[r].wrote = {}
              /\ req[r].exc = ExtractError => req[r].client = "not called"
              /\ req'[r].resp.status = 500
              /\ req'[r].resp.detail[Len(req'[r].resp.detail)] = req[r].exc.msg
              /\ Residue(r) = {}]_vars

\* The part of C9 that the cleanup does not decide.
C9_ErrorSurfaced ==
    [][\A r \in Req :
          (Finishes(r) /\ req[r].exc \in {ExtractError, AudioReadError, ClientError}) =>
              /\ req[r].wrote = {}
              /\ req[r].exc = ExtractError => req[r].client = "not called"
              /\ req'[r].resp.status = 500
              /\ req'[r].resp.detail[Len(req'[r].resp.detail)] = req[r].exc.msg]_vars

\* The download handler runs for request r in this step.
Handles(r) == req[r].pc = "idle" /\ req'[r].filename # None

Served(dir, filename) ==
    LET file_path == get_transcription_file_path(filename)
    IN IF /\ ~InvalidFilename(filename)
          /\ IsFileIn(dir, file_path) \/ IsDirIn(dir, file_path)
          /\ IsFileIn(dir, file_path)
       THEN ReadFileIn(dir, file_path)
       ELSE None

\* A step of the download handler of request r, or the sending of its
\* response.
DownloadStep(r) ==
    \/ Handles(r)
    \/ req[r].pc = "send" /\ req'[r].pc = "done"

\* A download changes neither directory, and the bytes it sends with a 200
\* response are Served(filename).
DownloadReadsOnly ==
    \A r \in Req :
        /\ DownloadStep(r) => (transcripts' = transcripts /\ tmpfs' = tmpfs)
        /\ (req[r].pc = "send" /\ req'[r].pc = "done"
               /\ req'[r].resp.status = 200) =>
              req'[r].resp.body = Served(transcripts, req[r].filename)

\* C11: download is idempotent: two successful downloads of the same
\* transcript filename, at any two moments of an execution, return the same
\* bytes (the bytes a download returns for a filename never change from one
\* step to the next), and a download step changes neither the transcripts
\* directory nor a temporary file.
C11_DownloadIdempotent ==
    [][/\ DownloadReadsOnly
       /\ \A filename \in DownloadNames :
             ( /\ Served(transcripts, filename) # None
               /\ Served(transcripts', filename) # None ) =>
                 Served(transcripts', filename) = Served(transcripts, filename)]_vars

\* The part of C11 that holds: a download changes nothing, and as long as
\* no save step runs the bytes of every download stay the same.
C11_DownloadReadOnly ==
    [][/\ DownloadReadsOnly
       /\ (\A r \in Req : req[r].pc # "save") =>
             \A filename \in DownloadNames :
                 Served(transcripts', filename) = Served(transcripts, filename)]_vars

\* The filename a request is about: the {filename} of a download, the
\* file.filename of an upload.
Origin(r) == IF req[r].filename # None THEN req[r].filename ELSE req[r].upload

\* The request has an error-level log entry with its filename and with the
\* error message of its response.
ErrorLogged(r) ==
    \E i \in 1..Len(req[r].errors) :
        /\ req[r].errors[i].levelname = "ERROR"
        /\ req[r].errors[i].filename = Origin(r)
        /\ \E j \in 1..Len(req[r].resp.detail) :
              req[r].errors[i].error = req[r].resp.detail[j]

\* The request was answered with an error status.
ErrorResponse(r) == req[r].pc = "done" /\ req[r].resp.status \in {400, 404, 500}

\* C12: every error response (400, 404, 500) of the transcribe and download
\* endpoints comes after an error-level log entry of the same request that
\* carries the request's filename and the error message.
C12_ErrorsLogged ==
    \A r \in Req : ErrorResponse(r) => ErrorLogged(r)

\* The part of C12 that holds: the error responses of the transcribe
\* endpoint and the 404 of the download endpoint are logged so.
C12_TranscribeErrorsLogged ==
    \A r \in Req :
        (ErrorResponse(r) /\ (req[r].filename = None \/ req[r].resp.status = 404))
            => ErrorLogged(r)

\* The temporary files of the invocations that run beside invocation r.
FilesOfOthers(r) ==
    { p \in DOMAIN tmpfs : tmpfs[p] # r /\ InPipeline(tmpfs[p]) }

\* Invocation r takes a step of process_video.
PipelineStep(r) == InPipeline(r) /\ req'[r] # req[r]

\* The file that the step of invocation r reads, when it reads one.
ReadsOwn(r) ==
    /\ (req[r].pc = "extract" /\ Exists(tmpfs, req[r].temp_video_path)) =>
           tmpfs[req[r].temp_video_path] = r
    /\ (req[r].pc = "transcribe" /\ Exists(tmpfs, req[r].temp_audio_path)) =>
           tmpfs[req[r].temp_audio_path] = r

\* Invocation r runs and has its staged video or its audio file on disk.
HoldsFile(r) ==
    /\ InPipeline(r)
    /\ req[r].temp_video_path # NoPath
    /\ \E p \in {req[r].temp_video_path, AudioPath(req[r].temp_video_path)} :
          Exists(tmpfs, p) /\ tmpfs[p] = r

\* C13: concurrent process_video invocations never share a temporary file:
\* two running invocations that have a temporary file on disk have
\* different staged video paths, the audio
\* path is the video path with ".mp3" appended, and no step of an invocation
\* reads, overwrites or deletes a temporary file of another running
\* invocation.
C13_NoSharedTempFile ==
    /\ [](\A r, q \in Req :
            /\ (r # q /\ HoldsFile(r) /\ HoldsFile(q)) =>
                   req[r].temp_video_path # req[q].temp_video_path
            /\ req[r].temp_audio_path # NoPath =>
                   req[r].temp_audio_path = AudioPath(req[r].temp_video_path))
    /\ [][\A r \in Req :
            PipelineStep(r) =>
               /\ ReadsOwn(r)
               /\ \A p \in FilesOfOthers(r) :
                     Exists(tmpfs', p) /\ tmpfs'[p] = tmpfs[p]]_vars

\* The part of C13 that holds: the audio path is the video path with ".mp3"
\* appended, a staged video path is not on disk when it is chosen, and a
\* cleanup step removes only a path that its invocation recorded.
C13_OwnPaths ==
    /\ [](\A r \in Req :
            req[r].temp_audio_path # NoPath =>
                req[r].temp_audio_path = AudioPath(req[r].temp_video_path))
    /\ [][\A r \in Req :
            /\ (req[r].pc = "stage" /\ req'[r].temp_video_path # NoPath) =>
                   ~Exists(tmpfs, req'[r].temp_video_path)
            /\ (PipelineStep(r) /\ req[r].pc \in {"cleanup_video", "cleanup_audio"}) =>
                   \A p \in DOMAIN tmpfs \ DOMAIN tmpfs' :
                       p \in {req[r].temp_video_path, req[r].temp_audio_path}]_vars

\* The temporary files that request r left on disk.
Leftover(r) == { p \in DOMAIN tmpfs : tmpfs[p] = r }

\* How the handling of an answered transcribe request went: rejected for
\* its type or size, or the message of the exception that ended it, "None"
\* when every step succeeded.
Outcome(r) == IF req[r].rejected # "no" THEN req[r].rejected ELSE req[r].exc.msg

\* r was answered by the structured handler and q by the legacy handler,
\* for the same upload and with the same outcome of the steps.
SideBySide(r, q) ==
    /\ Answered(r) /\ req[r].app = "app.main"
    /\ Answered(q) /\ req[q].app = "main"
    /\ req[r].content_type = req[q].content_type
    /\ req[r].size = req[q].size
    /\ Outcome(r) = Outcome(q)

\* The status the handlers are to answer with.
ExpectedStatus(r) ==
    IF Outcome(r) \in {"type", "No audio stream found in video"} THEN 400
    ELSE IF Outcome(r) = "None" THEN 200
    ELSE 500

\* C14: on the same upload with the same outcomes of the steps the legacy
\* handler and the structured handler answer with the same status (400 for
\* a non-video type or a missing audio track, 500 for a failing dependency,
\* 200 on success) and neither leaves a temporary file behind.
C14_LegacyAsStructured ==
    \A r, q \in Req :
        SideBySide(r, q) =>
            /\ req[r].resp.status = req[q].resp.status
            /\ req[q].resp.status = ExpectedStatus(q)
            /\ Leftover(r) = {}
            /\ Leftover(q) = {}

\* The part of C14 that holds: unless the audio track is missing the two
\* handlers answer with the same status, 200 when every step succeeded and
\* 500 when a dependency failed.
C14_SameStatusWithAudio ==
    \A r, q \in Req :
        (SideBySide(r, q) /\ Outcome(r) # "No audio stream found in video") =>
            /\ req[r].resp.status = req[q].resp.status
            /\ Outcome(r) # "type" => req[q].resp.status = ExpectedStatus(q)

====
